---- MODULE Spec2Model ----
(***************************************************************************)
(* A model of the data-cleaning engine of data_cleaning.py: the safe date  *)
(* parser, the weight normaliser and the six entity cleaners.              *)
(*                                                                         *)
(* Text is a sequence of one-character strings, so that the code's         *)
(* character-level operations (str.replace, str.split, re.search, re.sub,  *)
(* float(), int()) are computed as the code computes them.  A cell of a    *)
(* DataFrame is a record tagged by its Python type (field t).  An          *)
(* exception raised by a call is the pseudo-value Raise(name).             *)
(***************************************************************************)
EXTENDS Integers, Sequences, FiniteSets, TLC

VARIABLES
    date_string,   \* safe_parse: the argument
    date,          \* safe_parse: what the call returned or raised
    entry,         \* single_conversion: the argument
    weight,        \* single_conversion: what the call returned or raised
    entity,        \* which entity cleaner the run exercises
    raw_df,        \* the extracted table handed to the cleaner
    runs,          \* the outcomes of the successive applications of the cleaner
    script,        \* the script that is run: src, python_scripts or create_db_schema
    pc,            \* the position of the next statement of the script
    table_df,      \* the frame the script's variable x_df holds
    history        \* the statements executed so far, and the exception that ended the run

vars == <<date_string, date, entry, weight, entity, raw_df, runs,
          script, pc, table_df, history>>

-----------------------------------------------------------------------------
(* Characters and numbers *)

DigitSeq == <<"0", "1", "2", "3", "4", "5", "6", "7", "8", "9">>

Digit == {DigitSeq[i] : i \in 1..10}

Lower == {"a", "b", "c", "d", "e", "f", "g", "h", "i", "j", "k", "l", "m",
          "n", "o", "p", "q", "r", "s", "t", "u", "v", "w", "x", "y", "z"}

Upper == {"A", "B", "C", "D", "E", "F", "G", "H", "I", "J", "K", "L", "M",
          "N", "O", "P", "Q", "R", "S", "T", "U", "V", "W", "X", "Y", "Z"}

\* the regular-expression class [a-zA-Z]
Letter == Lower \cup Upper

\* the regular-expression class [a-zA-Z\d]
Alnum == Letter \cup Digit

DigitVal(c) == (CHOOSE i \in 1..10 : DigitSeq[i] = c) - 1

AllDigits(s) == \A i \in 1..Len(s) : s[i] \in Digit

RECURSIVE ToNat(_)
ToNat(s) ==
    IF s = <<>> THEN 0
    ELSE ToNat(SubSeq(s, 1, Len(s) - 1)) * 10 + DigitVal(s[Len(s)])

RECURSIVE NatToChars(_)
NatToChars(n) ==
    IF n < 10 THEN <<DigitSeq[n + 1]>>
    ELSE NatToChars(n \div 10) \o <<DigitSeq[(n % 10) + 1]>>

\* n rendered with at least w digits (the %02d, %04d of str(datetime))
RECURSIVE Pad(_, _)
Pad(s, w) == IF Len(s) >= w THEN s ELSE Pad(<<"0">> \o s, w)

-----------------------------------------------------------------------------
(* Python's str operations *)

StartsAt(s, i, pat) ==
    /\ i + Len(pat) - 1 <= Len(s)
    /\ \A j \in 1..Len(pat) : s[i + j - 1] = pat[j]

\* pat in s
Contains(s, pat) == \E i \in 1..(Len(s) + 1) : StartsAt(s, i, pat)

EndsWith(s, pat) ==
    Len(pat) <= Len(s) /\ StartsAt(s, Len(s) - Len(pat) + 1, pat)

\* s.replace(pat, rep) for a non-empty pat: leftmost, non-overlapping
RECURSIVE Replace(_, _, _)
Replace(s, pat, rep) ==
    IF s = <<>> THEN <<>>
    ELSE IF StartsAt(s, 1, pat)
         THEN rep \o Replace(SubSeq(s, Len(pat) + 1, Len(s)), pat, rep)
         ELSE <<s[1]>> \o Replace(SubSeq(s, 2, Len(s)), pat, rep)

\* s.split(c) for a single character c
RECURSIVE Split(_, _)
Split(s, c) ==
    IF \A i \in 1..Len(s) : s[i] # c THEN <<s>>
    ELSE LET k == CHOOSE i \in 1..Len(s) :
                      s[i] = c /\ \A j \in 1..(i - 1) : s[j] # c
         IN <<SubSeq(s, 1, k - 1)>> \o Split(SubSeq(s, k + 1, Len(s)), c)

\* re.sub('[^\d]', '', s)
RECURSIVE KeepDigits(_)
KeepDigits(s) ==
    IF s = <<>> THEN <<>>
    ELSE (IF s[1] \in Digit THEN <<s[1]>> ELSE <<>>)
         \o KeepDigits(SubSeq(s, 2, Len(s)))

-----------------------------------------------------------------------------
(* Cells *)

\* np.nan, the missing-value marker
NaN == [t |-> "nan"]

StrCell(s) == [t |-> "str", v |-> s]

IntCell(n) == [t |-> "int", n |-> n]

\* the float m * 10^-e, in lowest terms of e
RECURSIVE FloatCell(_, _)
FloatCell(m, e) ==
    IF e > 0 /\ m % 10 = 0 THEN FloatCell(m \div 10, e - 1)
    ELSE [t |-> "float", m |-> m, e |-> e]

BoolCell(b) == [t |-> "bool", b |-> b]

DateCell(y, mo, d, h, mi, s) ==
    [t |-> "date", y |-> y, mo |-> mo, d |-> d, h |-> h, mi |-> mi, s |-> s]

\* an exception leaving a call
Raise(e) == [t |-> "raise", exc |-> e]

\* no call made yet
NotRun == [t |-> "notrun"]

IsMissing(c) == c.t = "nan"

SignedChars(n) == IF n < 0 THEN <<"-">> \o NatToChars(-n) ELSE NatToChars(n)

\* repr of the float m * 10^-e
FloatChars(m, e) ==
    LET a == IF m < 0 THEN -m ELSE m
        digits == Pad(NatToChars(a), e + 1)
        whole == SubSeq(digits, 1, Len(digits) - e)
        frac == SubSeq(digits, Len(digits) - e + 1, Len(digits))
    IN (IF m < 0 THEN <<"-">> ELSE <<>>) \o whole \o <<".">>
       \o (IF e = 0 THEN <<"0">> ELSE frac)

\* str(x)
PyStr(c) ==
    CASE c.t = "str" -> c.v
      [] c.t = "nan" -> <<"n", "a", "n">>
      [] c.t = "int" -> SignedChars(c.n)
      [] c.t = "float" -> FloatChars(c.m, c.e)
      [] c.t = "bool" -> IF c.b THEN <<"T", "r", "u", "e">>
                         ELSE <<"F", "a", "l", "s", "e">>
      [] c.t = "date" ->
            Pad(NatToChars(c.y), 4) \o <<"-">> \o Pad(NatToChars(c.mo), 2)
            \o <<"-">> \o Pad(NatToChars(c.d), 2) \o <<" ">>
            \o Pad(NatToChars(c.h), 2) \o <<":">> \o Pad(NatToChars(c.mi), 2)
            \o <<":">> \o Pad(NatToChars(c.s), 2)

-----------------------------------------------------------------------------
(* float(s) and float arithmetic *)

\* digits, at most one ".", at least one digit
IsDecimal(s) ==
    LET parts == Split(s, ".")
    IN /\ Len(parts) <= 2
       /\ \A i \in 1..Len(parts) : AllDigits(parts[i])
       /\ \E i \in 1..Len(s) : s[i] \in Digit

DecimalValue(s) ==
    LET parts == Split(s, ".")
        frac == IF Len(parts) = 2 THEN parts[2] ELSE <<>>
    IN FloatCell(ToNat(parts[1] \o frac), Len(frac))

\* float(s): an optional sign and a decimal, or "nan"; otherwise ValueError
PyFloat(s) ==
    LET signed == s # <<>> /\ s[1] \in {"+", "-"}
        body == IF signed THEN SubSeq(s, 2, Len(s)) ELSE s
    IN IF body = <<"n", "a", "n">> THEN NaN
       ELSE IF ~IsDecimal(body) THEN Raise("ValueError")
       ELSE LET f == DecimalValue(body)
            IN IF signed /\ s[1] = "-" THEN FloatCell(-f.m, f.e) ELSE f

\* a * b on floats; nan and a raised exception propagate
FMul(a, b) ==
    IF a.t = "raise" THEN a
    ELSE IF b.t = "raise" THEN b
    ELSE IF a.t = "nan" \/ b.t = "nan" THEN NaN
    ELSE FloatCell(a.m * b.m, a.e + b.e)

\* a / 1000
FDivThousand(a) == FMul(a, FloatCell(1, 3))

\* 1 oz = 28.3495 g
OunceInKg == FloatCell(283495, 7)

-----------------------------------------------------------------------------
(* dateutil.parser.parse, on the shapes the tables of this model contain:  *)
(* "Y-M-D", "Y-M-D H:M:S", "Y-M-D H:M:SZ" (the UTC designator, which the   *)
(* parser reads as a time zone) and runs of digits.  It returns a          *)
(* timestamp (its time zone is not kept in the model),                     *)
(* raises ParserError (a ValueError) for text that holds no valid date, or *)
(* raises OverflowError when a number in the text exceeds a C int.         *)

IsLeap(y) == (y % 4 = 0 /\ y % 100 # 0) \/ y % 400 = 0

DaysInMonth(y, m) ==
    IF m \in {4, 6, 9, 11} THEN 30
    ELSE IF m = 2 THEN (IF IsLeap(y) THEN 29 ELSE 28)
    ELSE 31

IsNumField(s, lo, hi) == AllDigits(s) /\ Len(s) >= lo /\ Len(s) <= hi

\* the largest C int, 2^31 - 1, split as its first nine digits and its last
ExceedsCInt(s) ==
    \/ Len(s) > 10
    \/ /\ Len(s) = 10
       /\ LET head == ToNat(SubSeq(s, 1, 9))
          IN head > 214748364 \/ (head = 214748364 /\ DigitVal(s[10]) > 7)

ParseYMD(y, mo, d, h, mi, s) ==
    IF /\ y >= 1 /\ mo >= 1 /\ mo <= 12 /\ d >= 1 /\ d <= DaysInMonth(y, mo)
       /\ h <= 23 /\ mi <= 59 /\ s <= 59
    THEN DateCell(y, mo, d, h, mi, s)
    ELSE Raise("ValueError")

ParseDigits(s) ==
    IF Len(s) = 8
    THEN ParseYMD(ToNat(SubSeq(s, 1, 4)), ToNat(SubSeq(s, 5, 6)),
                  ToNat(SubSeq(s, 7, 8)), 0, 0, 0)
    ELSE IF Len(s) \notin {12, 14} /\ ExceedsCInt(s)
         THEN Raise("OverflowError")
         ELSE Raise("ValueError")

parse(s) ==
    LET words == Split(s, " ")
        ymd == Split(words[1], "-")
        clock == IF Len(words) = 2 /\ EndsWith(words[2], <<"Z">>)
                 THEN SubSeq(words[2], 1, Len(words[2]) - 1)
                 ELSE IF Len(words) = 2 THEN words[2] ELSE <<>>
        hms == IF Len(words) = 2 THEN Split(clock, ":") ELSE <<>>
        dateShaped == /\ Len(ymd) = 3
                      /\ IsNumField(ymd[1], 4, 4)
                      /\ IsNumField(ymd[2], 1, 2)
                      /\ IsNumField(ymd[3], 1, 2)
        timeShaped == /\ Len(hms) = 3
                      /\ \A i \in 1..3 : IsNumField(hms[i], 1, 2)
    IN IF s # <<>> /\ AllDigits(s) THEN ParseDigits(s)
       ELSE IF Len(words) = 1 /\ dateShaped
            THEN ParseYMD(ToNat(ymd[1]), ToNat(ymd[2]), ToNat(ymd[3]), 0, 0, 0)
       ELSE IF Len(words) = 2 /\ dateShaped /\ timeShaped
            THEN ParseYMD(ToNat(ymd[1]), ToNat(ymd[2]), ToNat(ymd[3]),
                          ToNat(hms[1]), ToNat(hms[2]), ToNat(hms[3]))
       ELSE Raise("ValueError")

\* DataCleaning.safe_parse: only ValueError is caught
safe_parse(x) ==
    LET r == parse(PyStr(x))
    IN IF r.t = "raise" /\ r.exc = "ValueError" THEN NaN ELSE r

-----------------------------------------------------------------------------
(* convert_product_weights.single_conversion *)

\* the g branch dividing by 100: a mutant of UnitToKg
UnitToKgGramsAsHundredths(e) ==
    IF Contains(e, <<"k", "g">>)
    THEN PyFloat(Replace(e, <<"k", "g">>, <<>>))
    ELSE IF Contains(e, <<"g">>)
    THEN FMul(PyFloat(Replace(e, <<"g">>, <<>>)), FloatCell(1, 2))
    ELSE IF Contains(e, <<"m", "l">>)
    THEN FDivThousand(PyFloat(Replace(e, <<"m", "l">>, <<>>)))
    ELSE IF Contains(e, <<"o", "z">>)
    THEN FMul(PyFloat(Replace(e, <<"o", "z">>, <<>>)), OunceInKg)
    ELSE NaN

\* the branches of single_conversion for an entry without "x"
UnitToKg(e) ==
    IF Contains(e, <<"k", "g">>)
    THEN PyFloat(Replace(e, <<"k", "g">>, <<>>))
    ELSE IF Contains(e, <<"g">>)
    THEN FDivThousand(PyFloat(Replace(e, <<"g">>, <<>>)))
    ELSE IF Contains(e, <<"m", "l">>)
    THEN FDivThousand(PyFloat(Replace(e, <<"m", "l">>, <<>>)))
    ELSE IF Contains(e, <<"o", "z">>)
    THEN FMul(PyFloat(Replace(e, <<"o", "z">>, <<>>)), OunceInKg)
    ELSE NaN

\* temp[1] of entry.split('x') holds no "x", so the recursive call takes
\* the unit branches
single_conversion(x) ==
    LET e == Replace(PyStr(x), <<" ">>, <<>>)
    IN IF Contains(e, <<"x">>)
       THEN LET temp == Split(e, "x")
                count == PyFloat(temp[1])
            IN IF count.t = "raise" THEN count
               ELSE FMul(count, UnitToKg(temp[2]))
       ELSE UnitToKg(e)

-----------------------------------------------------------------------------
(* Calls of safe_parse *)

MaxDigits == 16

Run(c, k) == [i \in 1..k |-> c]

\* year, month, day and time texts, valid and not
YearTexts == {<<"2", "0", "2", "1">>, <<"2", "0", "2", "4">>}

MonthTexts == {<<"0", "1">>, <<"2">>, <<"0", "2">>, <<"1", "2">>, <<"1", "3">>}

DayTexts == {<<"1">>, <<"2", "8">>, <<"2", "9">>, <<"3", "0">>, <<"3", "1">>,
             <<"3", "2">>}

TimeTexts == {<<>>,
              <<" ", "1", "2", ":", "3", "0", ":", "4", "5">>,
              <<" ", "2", "5", ":", "0", "0", ":", "0", "0">>}

DateTexts ==
    {y \o <<"-">> \o m \o <<"-">> \o d \o h :
        y \in YearTexts, m \in MonthTexts, d \in DayTexts, h \in TimeTexts}

\* runs of one digit; 6, 12 and 14 digits are compact dates to dateutil and
\* are left out, as are the runs of 1 to 4 digits, which it reads as a day
\* or a year relative to today
DigitTexts ==
    {Run(c, k) : c \in {"1", "9"}, k \in (5..MaxDigits) \ {6, 12, 14}}

NullText == <<"N", "U", "L", "L">>

OtherTexts ==
    {<<>>, NullText, <<"-">>, <<"/">>, <<".", ".">>, <<"?", "!">>,
     <<"g", "a", "r", "b", "a", "g", "e">>,
     <<"2", "0", "2", "1", "0", "2", "3", "0">>,
     <<"2", "0", "2", "1", "0", "2", "2", "8">>}

ParseInputs ==
    {StrCell(s) : s \in DateTexts \cup DigitTexts \cup OtherTexts}
    \cup {NaN, IntCell(20210105), IntCell(7), FloatCell(15, 1), BoolCell(TRUE)}

InitParse ==
    /\ date_string \in ParseInputs
    /\ date = NotRun
    /\ entry = NotRun
    /\ weight = NotRun
    /\ entity = "none"
    /\ raw_df = <<>>
    /\ runs = <<>>
    /\ script = "none"
    /\ pc = 0
    /\ table_df = NotRun
    /\ history = <<>>

CallSafeParse ==
    /\ date = NotRun
    /\ date' = safe_parse(date_string)
    /\ UNCHANGED <<date_string, entry, weight, entity, raw_df, runs,
                   script, pc, table_df, history>>

SpecParse == InitParse /\ [][CallSafeParse]_vars

\* C1: safe_parse never raises: every call returns a timestamp or the
\* missing-value marker, whatever error the date parser signals.
C1_SafeParseNeverRaises ==
    date # NotRun => date.t \in {"date", "nan"}

-----------------------------------------------------------------------------
(* Calls of single_conversion *)

MaxLen == 4

WeightAlphabet == {"1", "5", ".", "k", "g", "m", "l", "o", "z", "x", " "}

WeightExamples ==
    {<<"1", "2", "x", "1", "0", "0", "g">>,
     <<"1", "2", " ", "x", " ", "1", "0", "0", "g">>,
     <<"1", ".", "5", "k", "g">>,
     <<"2", "5", "0", "m", "l">>,
     <<"1", "6", "o", "z">>,
     <<"7", "7", "g", " ", ".">>,
     <<"2", "x", "3", "x", "4", "g">>,
     <<"a", "b", "c", "k", "g">>,
     <<"a", "x", "1", "0", "0", "g">>,
     <<"g", "a", "r", "b", "a", "g", "e">>}

WeightEntries ==
    {StrCell(s) : s \in UNION {[1..k -> WeightAlphabet] : k \in 0..MaxLen}}
    \cup {StrCell(s) : s \in WeightExamples}
    \cup {NaN, FloatCell(15, 1), IntCell(3)}

InitWeight ==
    /\ entry \in WeightEntries
    /\ weight = NotRun
    /\ date_string = NotRun
    /\ date = NotRun
    /\ entity = "none"
    /\ raw_df = <<>>
    /\ runs = <<>>
    /\ script = "none"
    /\ pc = 0
    /\ table_df = NotRun
    /\ history = <<>>

CallSingleConversion ==
    /\ weight = NotRun
    /\ weight' = single_conversion(entry)
    /\ UNCHANGED <<date_string, date, entry, entity, raw_df, runs,
                   script, pc, table_df, history>>

SpecWeight == InitWeight /\ [][CallSingleConversion]_vars

Units == {<<"k", "g">>, <<"g">>, <<"m", "l">>, <<"o", "z">>}

NumericPrefix(u, unit) == SubSeq(u, 1, Len(u) - Len(unit))

\* "N unit": a decimal number followed by a unit and nothing else
WellFormedUnitExpr(u) ==
    \E unit \in Units : EndsWith(u, unit) /\ IsDecimal(NumericPrefix(u, unit))

\* "N unit" or "C x N unit", spaces apart
WellFormedWeight(x) ==
    /\ x.t = "str"
    /\ LET parts == Split(Replace(x.v, <<" ">>, <<>>), "x")
       IN \/ Len(parts) = 1 /\ WellFormedUnitExpr(parts[1])
          \/ Len(parts) = 2 /\ IsDecimal(parts[1]) /\ WellFormedUnitExpr(parts[2])

\* the weight in kg of "N unit", the unit being what the text ends in
UnitExprInKg(u) ==
    IF EndsWith(u, <<"k", "g">>)
    THEN DecimalValue(NumericPrefix(u, <<"k", "g">>))
    ELSE IF EndsWith(u, <<"g">>)
    THEN FloatCell(DecimalValue(NumericPrefix(u, <<"g">>)).m,
                   DecimalValue(NumericPrefix(u, <<"g">>)).e + 3)
    ELSE IF EndsWith(u, <<"m", "l">>)
    THEN FloatCell(DecimalValue(NumericPrefix(u, <<"m", "l">>)).m,
                   DecimalValue(NumericPrefix(u, <<"m", "l">>)).e + 3)
    ELSE FloatCell(DecimalValue(NumericPrefix(u, <<"o", "z">>)).m * 283495,
                   DecimalValue(NumericPrefix(u, <<"o", "z">>)).e + 7)

WeightInKg(x) ==
    LET parts == Split(Replace(x.v, <<" ">>, <<>>), "x")
    IN IF Len(parts) = 1 THEN UnitExprInKg(parts[1])
       ELSE FloatCell(DecimalValue(parts[1]).m * UnitExprInKg(parts[2]).m,
                      DecimalValue(parts[1]).e + UnitExprInKg(parts[2]).e)

C3_MalformedWeightIsMissing ==
    (weight # NotRun /\ ~WellFormedWeight(entry)) => weight = NaN

-----------------------------------------------------------------------------
(* DataFrames.  A frame is its set of columns and its rows in order; a     *)
(* group [i, n, r] stands for n rows of content r (a function from the     *)
(* columns to cells), the first of them labelled i in the index.  A call   *)
(* that raises returns Raise(name) in place of a frame.                    *)

DataFrame(cols, rows) == [t |-> "df", cols |-> cols, rows |-> rows]

\* the rest of a computation, unless the step before it raised
Then(o, Step(_)) == IF o.t = "raise" THEN o ELSE Step(o)

\* the first exception a row-wise application raises, if any
FirstRaise(df, F(_)) ==
    LET bad == {k \in 1..Len(df.rows) : F(df.rows[k].r).t = "raise"}
    IN IF bad = {} THEN NotRun
       ELSE F(df.rows[CHOOSE k \in bad : \A j \in bad : k <= j].r)

\* df[col] = (F(row) for each row); F is given the row
Assign(df, col, F(_)) ==
    IF FirstRaise(df, F).t = "raise" THEN FirstRaise(df, F)
    ELSE DataFrame(df.cols \cup {col},
             [k \in 1..Len(df.rows) |->
                 [df.rows[k] EXCEPT
                     !.r = [c \in df.cols \cup {col} |->
                               IF c = col THEN F(df.rows[k].r)
                               ELSE df.rows[k].r[c]]]])

\* df[col] = df[col].apply(f)
Apply(df, col, f(_)) ==
    IF col \notin df.cols THEN Raise("KeyError")
    ELSE Assign(df, col, LAMBDA r : f(r[col]))

\* df.drop(columns = cs), cs present
DropColumns(df, cs) ==
    DataFrame(df.cols \ cs,
        [k \in 1..Len(df.rows) |->
            [df.rows[k] EXCEPT !.r = [c \in df.cols \ cs |-> df.rows[k].r[c]]]])

KeepRows(df, Keep(_)) ==
    DataFrame(df.cols, SelectSeq(df.rows, LAMBDA g : Keep(g.r)))

\* no row dropped: a mutant of DropNa
DropNaNever(df) == df

\* df.dropna()
DropNa(df) == KeepRows(df, LAMBDA r : \A c \in df.cols : ~IsMissing(r[c]))

\* df.dropna(subset = col)
DropNaSubset(df, col) == KeepRows(df, LAMBDA r : ~IsMissing(r[col]))

\* df.reset_index(drop = True)
RECURSIVE RowsBefore(_, _)
RowsBefore(rows, k) ==
    IF k <= 1 THEN 0 ELSE RowsBefore(rows, k - 1) + rows[k - 1].n

ResetIndex(df) ==
    DataFrame(df.cols,
        [k \in 1..Len(df.rows) |->
            [df.rows[k] EXCEPT !.i = IntCell(RowsBefore(df.rows, k))]])

\* df.set_index(col)
SetIndex(df, col) ==
    DropColumns(
        DataFrame(df.cols,
            [k \in 1..Len(df.rows) |-> [df.rows[k] EXCEPT !.i = df.rows[k].r[col]]]),
        {col})

\* df[col].value_counts()[x]: missing values are not counted, and a key
\* that was not counted is a KeyError
RECURSIVE CountIn(_, _, _)
CountIn(rows, col, x) ==
    IF rows = <<>> THEN 0
    ELSE (IF rows[1].r[col] = x THEN rows[1].n ELSE 0)
         + CountIn(Tail(rows), col, x)

ValueCount(df, col, x) == CountIn(df.rows, col, x)

\* x.astype('string') of one cell: missing stays missing
AsString(c) == IF IsMissing(c) THEN NaN ELSE StrCell(PyStr(c))

\* the columns cs cast with .astype('string'), read as attributes of df
RECURSIVE AsTypeString(_, _)
AsTypeString(df, cs) ==
    IF cs = {} THEN df
    ELSE IF ~(cs \subseteq df.cols) THEN Raise("AttributeError")
    ELSE LET c == CHOOSE c \in cs : TRUE
         IN AsTypeString(Apply(df, c, AsString), cs \ {c})

\* the whole part of m * 10^-e
RECURSIVE Truncated(_, _)
Truncated(m, e) == IF e = 0 THEN m ELSE Truncated(m \div 10, e - 1)

\* int(s) of one cell, as .astype('int') applies it
AsInt(c) ==
    CASE c.t = "int" -> c
      [] c.t = "str" ->
            IF c.v # <<>> /\ AllDigits(c.v) THEN IntCell(ToNat(c.v))
            ELSE Raise("ValueError")
      [] c.t = "float" -> IntCell(Truncated(c.m, c.e))
      [] OTHER -> Raise("ValueError")

\* pd.to_numeric(x, errors = 'coerce') of one cell
ToNumeric(c) ==
    CASE c.t \in {"int", "float", "nan"} -> c
      [] c.t = "str" -> IF PyFloat(c.v).t = "raise" THEN NaN ELSE PyFloat(c.v)
      [] OTHER -> NaN

-----------------------------------------------------------------------------
(* clean_user_data *)

\* the country code left as extracted: a mutant of FixCountryCode
FixCountryCodeNever(x) == x

\* df['country_code'][df['country_code'] == 'GGB'] = 'GB'
FixCountryCode(x) == IF x = StrCell(<<"G", "G", "B">>) THEN StrCell(<<"G", "B">>) ELSE x

\* the address left as extracted: a mutant of FixEmail
FixEmailNever(x) == x

\* x.replace('@@', '@')
FixEmail(x) == StrCell(Replace(x.v, <<"@", "@">>, <<"@">>))

\* re.sub(r'x|\.', '', x): a TypeError unless x is text
FixPhone(x) ==
    IF x.t # "str" THEN Raise("TypeError")
    ELSE StrCell(Replace(Replace(x.v, <<"x">>, <<>>), <<".">>, <<>>))

UserStringColumns ==
    {"first_name", "last_name", "company", "email_address", "address",
     "country", "country_code"}

clean_user_data(user_data_df) ==
    LET df1 == IF "index" \in user_data_df.cols
               THEN SetIndex(user_data_df, "index") ELSE user_data_df
        df2 == AsTypeString(df1, UserStringColumns)
        df3 == Then(df2, LAMBDA d : Apply(d, "date_of_birth", safe_parse))
        df4 == Then(df3, LAMBDA d : Apply(d, "join_date", safe_parse))
        df5 == Then(df4, DropNa)
        df6 == Then(df5, LAMBDA d : Apply(d, "country_code", FixCountryCode))
        df7 == Then(df6, LAMBDA d : Apply(d, "email_address", FixEmail))
    IN Then(df7, LAMBDA d : Apply(d, "phone_number", FixPhone))

-----------------------------------------------------------------------------
(* clean_card_data *)

\* the provider support threshold of clean_card_data
MinCardProviderCount == 12

\* len(x) == 5 and x[2] == '/': a TypeError unless x is text
ExpiryDateMask(x) ==
    IF x.t # "str" THEN Raise("TypeError")
    ELSE BoolCell(Len(x.v) = 5 /\ x.v[3] = "/")

\* every provider passing: a mutant of CardProviderMask
CardProviderMaskAny(df, x) == BoolCell(TRUE)

\* card_provider_count[x] > 12
CardProviderMask(df, x) ==
    IF IsMissing(x) THEN Raise("KeyError")
    ELSE BoolCell(ValueCount(df, "card_provider", x) > MinCardProviderCount)

\* a value is kept where its mask is true and set to np.nan elsewhere
Masked(x, mask) ==
    IF mask.t = "raise" THEN mask ELSE IF mask.b THEN x ELSE NaN

\* str(x).replace('?', '')
StripPlaceholders(x) == StrCell(Replace(PyStr(x), <<"?">>, <<>>))

\* any text passing: a mutant of CardNumberMask
CardNumberMaskAny(x) == BoolCell(TRUE)

\* bool(re.search(r'^\d+$', str(x)))
CardNumberMask(x) == BoolCell(PyStr(x) # <<>> /\ AllDigits(PyStr(x)))

clean_card_data(card_data_df) ==
    LET df1 == Apply(card_data_df, "expiry_date",
                     LAMBDA x : Masked(x, ExpiryDateMask(x)))
        df2 == Then(df1, LAMBDA d : Apply(d, "expiry_date", AsString))
        df3 == Then(df2, LAMBDA d : Apply(d, "card_provider",
                     LAMBDA x : Masked(x, CardProviderMask(d, x))))
        df4 == Then(df3, LAMBDA d : Apply(d, "card_provider", AsString))
        df5 == Then(df4, LAMBDA d : Apply(d, "date_payment_confirmed", safe_parse))
        df6 == Then(df5, LAMBDA d : Apply(d, "card_number", StripPlaceholders))
        df7 == Then(df6, LAMBDA d : Apply(d, "card_number",
                     LAMBDA x : Masked(x, CardNumberMask(x))))
        df8 == Then(df7, LAMBDA d : Apply(d, "card_number", AsString))
    IN Then(df8, DropNa)


-----------------------------------------------------------------------------
(* Regular expressions of the cleaners, as re.search applies them: a      *)
(* match may start at any position and need not reach the end.            *)

\* k characters of the class cls from position i
MatchRun(s, i, cls, k) ==
    i + k - 1 <= Len(s) /\ \A j \in 0..(k - 1) : s[i + j] \in cls

\* [a-zA-Z\d]{8}-[a-zA-Z\d]{4}-[a-zA-Z\d]{4}-[a-zA-Z\d]{4}-[a-zA-Z\d]{12}
UuidAt(s, i) ==
    /\ i + 35 <= Len(s)
    /\ MatchRun(s, i, Alnum, 8) /\ s[i + 8] = "-"
    /\ MatchRun(s, i + 9, Alnum, 4) /\ s[i + 13] = "-"
    /\ MatchRun(s, i + 14, Alnum, 4) /\ s[i + 18] = "-"
    /\ MatchRun(s, i + 19, Alnum, 4) /\ s[i + 23] = "-"
    /\ MatchRun(s, i + 24, Alnum, 12)

SearchUuid(s) == \E i \in 1..Len(s) : UuidAt(s, i)

\* [a-zA-Z]{1}[\d]{1}-[a-zA-Z\d]+
SearchProductCode(s) ==
    \E i \in 1..Len(s) :
        /\ i + 3 <= Len(s)
        /\ s[i] \in Letter /\ s[i + 1] \in Digit /\ s[i + 2] = "-"
        /\ s[i + 3] \in Alnum

\* [\d]{2}:[\d]{2}:[\d]{2}
SearchTimestamp(s) ==
    \E i \in 1..Len(s) :
        /\ i + 7 <= Len(s)
        /\ MatchRun(s, i, Digit, 2) /\ s[i + 2] = ":"
        /\ MatchRun(s, i + 3, Digit, 2) /\ s[i + 5] = ":"
        /\ MatchRun(s, i + 6, Digit, 2)

\* [\d]{1,2} and [\d]{4}
SearchDigits(s, k) == \E i \in 1..Len(s) : MatchRun(s, i, Digit, k)

-----------------------------------------------------------------------------
(* clean_store_data *)

\* the store type support threshold of clean_store_data
MinStoreTypeCount == 4

WebPortal == StrCell(<<"W", "e", "b", " ", "P", "o", "r", "t", "a", "l">>)

\* df['store_type'].value_counts()[x] < 4 and x != 'Web Portal'
InvalidStoreMask(df, x) ==
    IF IsMissing(x) THEN Raise("KeyError")
    ELSE BoolCell(ValueCount(df, "store_type", x) < MinStoreTypeCount
                  /\ x # WebPortal)

\* a value is set to np.nan where its mask is true
MaskedOut(x, mask) ==
    IF mask.t = "raise" THEN mask ELSE IF mask.b THEN NaN ELSE x

\* re.sub('[^\d]', '', str(x))
StaffDigits(x) == StrCell(KeepDigits(PyStr(x)))

\* x.replace('ee', ''): an AttributeError unless x is text
FixContinent(x) ==
    IF x.t # "str" THEN Raise("AttributeError")
    ELSE StrCell(Replace(x.v, <<"e", "e">>, <<>>))

StoreStringColumns ==
    {"address", "locality", "store_code", "store_type", "country_code",
     "continent"}

StoreColumns ==
    {"store_code", "store_type", "staff_numbers", "locality", "address",
     "country_code", "continent", "longitude", "latitude", "opening_date"}

\* df[[...]]: the listed columns, a KeyError if one is absent
SelectColumns(df, cs) ==
    IF ~(cs \subseteq df.cols) THEN Raise("KeyError")
    ELSE DropColumns(df, df.cols \ cs)

clean_store_data(store_data_df) ==
    LET df1 == IF "lat" \in store_data_df.cols
               THEN DropColumns(store_data_df, {"lat"}) ELSE store_data_df
        df2 == Apply(df1, "store_type",
                     LAMBDA x : MaskedOut(x, InvalidStoreMask(df1, x)))
        df3 == Then(df2, LAMBDA d : DropNaSubset(d, "store_type"))
        df4 == Then(df3, LAMBDA d : Apply(d, "staff_numbers", StaffDigits))
        df5 == Then(df4, LAMBDA d : Apply(d, "opening_date", safe_parse))
        df6 == Then(df5, LAMBDA d : Apply(d, "continent", FixContinent))
        df7 == Then(df6, LAMBDA d : AsTypeString(d, StoreStringColumns))
        df8 == Then(df7, LAMBDA d : Apply(d, "longitude", ToNumeric))
        df9 == Then(df8, LAMBDA d : Apply(d, "latitude", ToNumeric))
        df10 == Then(df9, LAMBDA d : Apply(d, "staff_numbers", AsInt))
        df11 == Then(df10, ResetIndex)
        df12 == Then(df11, LAMBDA d : IF "index" \in d.cols
                                      THEN DropColumns(d, {"index"}) ELSE d)
    IN Then(df12, LAMBDA d : SelectColumns(d, StoreColumns))

-----------------------------------------------------------------------------
(* convert_product_weights and clean_products_data *)

convert_product_weights(product_data_df) ==
    Then(Apply(product_data_df, "weight", single_conversion),
         LAMBDA d : Apply(d, "weight", ToNumeric))

\* the category support threshold of clean_products_data
MinCategoryCount == 1

\* str(x).replace('£', '')
StripPound(x) == StrCell(Replace(PyStr(x), <<"£">>, <<>>))

\* x if (x in category_count.keys() and category_count[x] > 1) else np.nan
CleanCategory(df, x) ==
    IF ~IsMissing(x) /\ ValueCount(df, "category", x) > MinCategoryCount
    THEN x ELSE NaN

\* x if not bool(re.search('[^\d]', str(x))) else np.nan
CleanEAN(x) == IF AllDigits(PyStr(x)) THEN x ELSE NaN

UuidMask(x) == BoolCell(SearchUuid(PyStr(x)))

\* False if x == 'Removed' else (True if x == 'Still_avaliable' else np.nan)
CleanRemoved(x) ==
    IF x = StrCell(<<"R", "e", "m", "o", "v", "e", "d">>) THEN BoolCell(FALSE)
    ELSE IF x = StrCell(<<"S", "t", "i", "l", "l", "_", "a", "v", "a", "l", "i", "a", "b", "l", "e">>) THEN BoolCell(TRUE)
    ELSE NaN

\* df.rename(columns = {old: new})
Rename(df, old, new) ==
    IF old \notin df.cols THEN df
    ELSE DropColumns(
             DataFrame(df.cols \cup {new},
                 [k \in 1..Len(df.rows) |->
                     [df.rows[k] EXCEPT
                         !.r = [c \in df.cols \cup {new} |->
                                   IF c = new THEN df.rows[k].r[old]
                                   ELSE df.rows[k].r[c]]]]),
             {old})

ProductCodeMask(x) == BoolCell(SearchProductCode(PyStr(x)))

ProductStringColumns == {"product_name", "category", "uuid", "product_code", "EAN"}

\* x.astype('bool') of one cell
AsBool(c) == IF c.t = "bool" THEN c ELSE BoolCell(TRUE)

\* df.removed = df.removed.astype('bool'): the attribute is read first
CastRemoved(df) ==
    IF "removed" \notin df.cols THEN Raise("AttributeError")
    ELSE Apply(df, "removed", AsBool)

clean_products_data(product_data_df) ==
    LET df1 == convert_product_weights(product_data_df)
        df2 == Then(df1, LAMBDA d : IF "Unnamed: 0" \in d.cols
                                    THEN DropColumns(d, {"Unnamed: 0"}) ELSE d)
        df3 == Then(df2, LAMBDA d : Apply(d, "product_price", StripPound))
        df4 == Then(df3, LAMBDA d : Apply(d, "product_price", ToNumeric))
        df5 == Then(df4, LAMBDA d : Apply(d, "category",
                     LAMBDA x : CleanCategory(d, x)))
        df6 == Then(df5, LAMBDA d : Apply(d, "EAN", CleanEAN))
        df7 == Then(df6, LAMBDA d : Apply(d, "date_added", safe_parse))
        df8 == Then(df7, LAMBDA d : Apply(d, "uuid",
                     LAMBDA x : Masked(x, UuidMask(x))))
        df9 == Then(df8, LAMBDA d : Apply(d, "removed", CleanRemoved))
        df10 == Then(df9, LAMBDA d : Rename(d, "removed", "still_available"))
        df11 == Then(df10, LAMBDA d : Apply(d, "product_code",
                     LAMBDA x : Masked(x, ProductCodeMask(x))))
        df12 == Then(df11, DropNa)
        df13 == Then(df12, LAMBDA d : AsTypeString(d, ProductStringColumns))
    IN Then(df13, CastRemoved)

-----------------------------------------------------------------------------
(* clean_orders_data *)

OrderDroppedColumns == {"level_0", "index", "first_name", "last_name", "1"}

OrderStringColumns == {"date_uuid", "user_uuid", "store_code", "product_code"}

clean_orders_data(order_data_df) ==
    IF ~(OrderDroppedColumns \subseteq order_data_df.cols) THEN Raise("KeyError")
    ELSE AsTypeString(DropColumns(order_data_df, OrderDroppedColumns),
                      OrderStringColumns)

-----------------------------------------------------------------------------
(* clean_events_data *)

\* the time period support threshold of clean_events_data
MinTimePeriodCount == 15

TimestampMask(x) == BoolCell(SearchTimestamp(PyStr(x)))

DayMask(x) == BoolCell(SearchDigits(PyStr(x), 1))

MonthMask(x) == BoolCell(SearchDigits(PyStr(x), 1))

YearMask(x) == BoolCell(SearchDigits(PyStr(x), 4))

\* x if (x in time_period.keys() and time_period[x] > 15) else np.nan
CleanTimePeriod(df, x) ==
    IF ~IsMissing(x) /\ ValueCount(df, "time_period", x) > MinTimePeriodCount
    THEN x ELSE NaN

\* parse of year + '-' + month + '-' + day + ' ' + timestamp
EventDate(r) ==
    parse(PyStr(r["year"]) \o <<"-">> \o PyStr(r["month"]) \o <<"-">>
          \o PyStr(r["day"]) \o <<" ">> \o PyStr(r["timestamp"]))

clean_events_data(event_data_df) ==
    LET df1 == Apply(event_data_df, "timestamp",
                     LAMBDA x : Masked(x, TimestampMask(x)))
        df2 == Then(df1, LAMBDA d : Apply(d, "day", LAMBDA x : Masked(x, DayMask(x))))
        df3 == Then(df2, LAMBDA d : Apply(d, "month", LAMBDA x : Masked(x, MonthMask(x))))
        df4 == Then(df3, LAMBDA d : Apply(d, "year", LAMBDA x : Masked(x, YearMask(x))))
        df5 == Then(df4, LAMBDA d : Apply(d, "time_period",
                     LAMBDA x : CleanTimePeriod(d, x)))
        df6 == Then(df5, LAMBDA d : Apply(d, "date_uuid",
                     LAMBDA x : Masked(x, UuidMask(x))))
        df7 == Then(df6, DropNa)
        df8 == Then(df7, LAMBDA d : Apply(d, "month", AsInt))
        df9 == Then(df8, LAMBDA d : Apply(d, "year", AsInt))
        df10 == Then(df9, LAMBDA d : Apply(d, "day", AsInt))
        df11 == Then(df10, LAMBDA d :
                    AsTypeString(d, {"timestamp", "time_period", "date_uuid"}))
        df12 == Then(df11, ResetIndex)
    IN Then(df12, LAMBDA d : Assign(d, "date", EventDate))


-----------------------------------------------------------------------------
(* The extracted tables.  A table is up to MaxGroups groups of rows, each  *)
(* group a row of the entity's sample rows repeated a number of times that *)
(* straddles the entity's support threshold.                               *)

MaxGroups == 2

MaxRuns == 2

GoodUuid == <<"a", "1", "b", "2", "c", "3", "d", "4", "-", "e", "5", "f", "6", "-", "7", "8", "9", "0", "-", "a", "b", "c", "d", "-", "e", "f", "1", "2", "3", "4", "5", "6", "7", "8", "9", "0">>

\* one digit short
ShortUuid == <<"a", "1", "b", "2", "c", "3", "d", "4", "-", "e", "5", "f", "6", "-", "7", "8", "9", "0", "-", "a", "b", "c", "d", "-", "e", "f", "1", "2", "3", "4", "5", "6", "7", "8", "9">>

\* a letter that is no hexadecimal digit
NonHexUuid == <<"g", "1", "b", "2", "c", "3", "d", "4", "-", "e", "5", "f", "6", "-", "7", "8", "9", "0", "-", "a", "b", "c", "d", "-", "e", "f", "1", "2", "3", "4", "5", "6", "7", "8", "9", "0">>

\* a character before and two after
PaddedUuid == <<"x", "a", "1", "b", "2", "c", "3", "d", "4", "-", "e", "5", "f", "6", "-", "7", "8", "9", "0", "-", "a", "b", "c", "d", "-", "e", "f", "1", "2", "3", "4", "5", "6", "7", "8", "9", "0", "z", "z">>

AmexText == <<"A", "m", "e", "x">>

KioskText == <<"K", "i", "o", "s", "k">>

JunkText == <<"j", "u", "n", "k">>

MorningText == <<"M", "o", "r", "n", "i", "n", "g">>

LongDigits == <<"4", "5", "3", "2", "0", "1", "5", "1", "1", "2", "3", "4", "5", "6", "7", "8">>

UserRow ==
    [first_name |-> StrCell(<<"A", "n", "n">>), last_name |-> StrCell(<<"L", "e", "e">>),
     date_of_birth |-> StrCell(<<"1", "9", "8", "0", "-", "0", "1", "-", "0", "5">>), company |-> StrCell(<<"A", "c", "m", "e">>),
     email_address |-> StrCell(<<"a", "@", "b", ".", "c">>), address |-> StrCell(<<"1", " ", "R", "d">>),
     country |-> StrCell(<<"U", "K">>), country_code |-> StrCell(<<"G", "B">>),
     phone_number |-> StrCell(<<"+", "4", "4", "(", "0", ")", "1", ".", "2", "x", "3">>),
     join_date |-> StrCell(<<"2", "0", "2", "0", "-", "0", "2", "-", "2", "9">>), user_uuid |-> StrCell(GoodUuid)]

UserRows ==
    {UserRow,
     [UserRow EXCEPT !.country_code = StrCell(<<"G", "G", "B">>)],
     [UserRow EXCEPT !.country_code = StrCell(<<"D", "E">>)],
     [UserRow EXCEPT !.country_code = StrCell(<<"G", "G", "B">>),
                     !.date_of_birth = StrCell(NullText)],
     [UserRow EXCEPT !.email_address = StrCell(<<"a", "@", "@", "b", ".", "c">>)],
     [UserRow EXCEPT !.email_address = StrCell(<<"a", "@", "@", "@", "b", ".", "c">>)],
     [UserRow EXCEPT !.email_address = StrCell(<<"a", "@", "@", "@", "@", "b", ".", "c">>)],
     [UserRow EXCEPT !.join_date = StrCell(<<"A", "B", "1", "2">>)],
     [UserRow EXCEPT !.join_date = StrCell(LongDigits)],
     [UserRow EXCEPT !.company = NaN],
     [UserRow EXCEPT !.phone_number = IntCell(441234)]}

CardRow ==
    [card_number |-> StrCell(LongDigits), expiry_date |-> StrCell(<<"1", "2", "/", "2", "5">>),
     card_provider |-> StrCell(<<"V", "i", "s", "a">>),
     date_payment_confirmed |-> StrCell(<<"2", "0", "1", "5", "-", "0", "6", "-", "0", "1">>)]

CardRows ==
    {CardRow,
     [CardRow EXCEPT !.card_number = StrCell(<<"4", "5", "3", "2", "?", "0", "1", "5", "1", "1", "2", "3", "4", "5", "?", "6", "7", "8">>)],
     [CardRow EXCEPT !.card_number = StrCell(<<"4", "5", "3", "2", "?", "0", "1", "5", "1", "?", "2", "3", "4", "5", "6", "7", "8", "?">>)],
     [CardRow EXCEPT !.card_number = StrCell(<<"4", "5", "A", "2", "0", "1", "5", "1", "1", "2", "3", "4", "5", "6", "7", "8">>)],
     [CardRow EXCEPT !.card_number = IntCell(4532)],
     [CardRow EXCEPT !.card_provider = StrCell(AmexText)],
     [CardRow EXCEPT !.card_provider = NaN],
     [CardRow EXCEPT !.expiry_date = StrCell(<<"1", "/", "2", "5">>)],
     [CardRow EXCEPT !.expiry_date = NaN],
     [CardRow EXCEPT !.date_payment_confirmed = StrCell(NullText)],
     [CardRow EXCEPT !.date_payment_confirmed = StrCell(LongDigits)]}

NotAvailable == StrCell(<<"N", "/", "A">>)

StoreRow ==
    [store_code |-> StrCell(<<"L", "O", "-", "1">>), store_type |-> StrCell(<<"L", "o", "c", "a", "l">>),
     staff_numbers |-> StrCell(<<"3", "0">>), locality |-> StrCell(<<"T", "o", "w", "n">>),
     address |-> StrCell(<<"1", " ", "R", "d">>), country_code |-> StrCell(<<"G", "B">>),
     continent |-> StrCell(<<"E", "u", "r", "o", "p", "e">>), longitude |-> StrCell(<<"5", "1", ".", "5">>),
     latitude |-> StrCell(<<"-", "0", ".", "1">>), opening_date |-> StrCell(<<"2", "0", "1", "0", "-", "0", "6", "-", "1", "2">>),
     lat |-> NaN]

StoreRows ==
    {StoreRow,
     [StoreRow EXCEPT !.store_type = StrCell(KioskText)],
     [StoreRow EXCEPT !.store_type = WebPortal, !.locality = NotAvailable,
                      !.address = NotAvailable, !.longitude = NotAvailable,
                      !.latitude = NaN],
     [StoreRow EXCEPT !.store_type = WebPortal, !.staff_numbers = NaN,
                      !.locality = NaN, !.address = NaN, !.country_code = NaN,
                      !.continent = NaN, !.longitude = NaN, !.latitude = NaN,
                      !.opening_date = NaN],
     [StoreRow EXCEPT !.staff_numbers = StrCell(<<"3", "n", "9">>)],
     [StoreRow EXCEPT !.staff_numbers = StrCell(<<"a", "b", "c">>)],
     [StoreRow EXCEPT !.continent = StrCell(<<"e", "e", "E", "u", "r", "o", "p", "e">>)],
     [StoreRow EXCEPT !.opening_date = StrCell(NullText)],
     [StoreRow EXCEPT !.store_type = StrCell(KioskText),
                      !.longitude = NotAvailable],
     [StoreRow EXCEPT !.store_type = NaN]}

ProductRow ==
    [product_name |-> StrCell(<<"T", "o", "y">>), product_price |-> StrCell(<<"£">> \o <<"3", ".", "5", "0">>),
     weight |-> StrCell(<<"1", ".", "5", "k", "g">>), category |-> StrCell(<<"t", "o", "y", "s">>),
     EAN |-> StrCell(<<"5", "0", "1", "2", "3", "4", "5", "6", "7", "8", "9", "0", "0">>), date_added |-> StrCell(<<"2", "0", "1", "8", "-", "1", "0", "-", "1", "0">>),
     uuid |-> StrCell(GoodUuid), removed |-> StrCell(<<"S", "t", "i", "l", "l", "_", "a", "v", "a", "l", "i", "a", "b", "l", "e">>),
     product_code |-> StrCell(<<"A", "8", "-", "4", "6", "8", "6", "8", "9", "2", "S">>)]

ProductRows ==
    {ProductRow,
     [ProductRow EXCEPT !.weight = StrCell(<<"1", "2", " ", "x", " ", "1", "0", "0", "g">>)],
     [ProductRow EXCEPT !.weight = StrCell(<<"7", "7", "g", " ", ".">>)],
     [ProductRow EXCEPT !.weight = StrCell(<<"a", "b", "c", "k", "g">>)],
     [ProductRow EXCEPT !.removed = StrCell(<<"R", "e", "m", "o", "v", "e", "d">>)],
     [ProductRow EXCEPT !.removed = StrCell(<<"T", "3", "Q", "R", "R", "H", "7", "S", "R", "P">>)],
     [ProductRow EXCEPT !.uuid = StrCell(ShortUuid)],
     [ProductRow EXCEPT !.uuid = StrCell(NonHexUuid)],
     [ProductRow EXCEPT !.category = StrCell(JunkText)],
     [ProductRow EXCEPT !.product_price = StrCell(<<"a", "b", "c">>)],
     [ProductRow EXCEPT !.EAN = StrCell(<<"5", "0", "a">>)],
     [ProductRow EXCEPT !.product_code = StrCell(<<"b", "a", "d">>)]}

OrderRow ==
    [date_uuid |-> StrCell(GoodUuid), user_uuid |-> StrCell(NonHexUuid),
     card_number |-> IntCell(4532), store_code |-> StrCell(<<"L", "O", "-", "1">>),
     product_code |-> StrCell(<<"A", "8", "-", "4", "6", "8", "6", "8", "9", "2", "S">>), product_quantity |-> IntCell(3),
     first_name |-> NaN, last_name |-> NaN] @@ ("1" :> NaN)

OrderRows ==
    {OrderRow,
     [OrderRow EXCEPT !.date_uuid = NaN],
     [OrderRow EXCEPT !.product_quantity = NaN],
     [OrderRow EXCEPT !.store_code = IntCell(7)],
     [OrderRow EXCEPT !.date_uuid = StrCell(ShortUuid),
                      !.first_name = StrCell(<<"A", "n", "n">>)]}

EventRow ==
    [timestamp |-> StrCell(<<"2", "2", ":", "0", "0", ":", "0", "6">>), month |-> StrCell(<<"9">>),
     year |-> StrCell(<<"2", "0", "1", "2">>), day |-> StrCell(<<"1", "9">>),
     time_period |-> StrCell(<<"E", "v", "e", "n", "i", "n", "g">>), date_uuid |-> StrCell(GoodUuid)]

EventRows ==
    {EventRow,
     [EventRow EXCEPT !.time_period = StrCell(MorningText)],
     [EventRow EXCEPT !.time_period = NaN],
     [EventRow EXCEPT !.timestamp = StrCell(NullText)],
     [EventRow EXCEPT !.timestamp = StrCell(<<"x", "2", "2", ":", "0", "0", ":", "0", "6">>)],
     [EventRow EXCEPT !.timestamp = StrCell(<<"2", "2", ":", "0", "0", ":", "0", "6", "Z">>)],
     [EventRow EXCEPT !.month = StrCell(<<"1", "3">>)],
     [EventRow EXCEPT !.month = StrCell(<<"2">>), !.day = StrCell(<<"3", "1">>)],
     [EventRow EXCEPT !.day = StrCell(<<"a", "5">>)],
     [EventRow EXCEPT !.year = StrCell(<<"2", "1">>)],
     [EventRow EXCEPT !.date_uuid = StrCell(ShortUuid)],
     [EventRow EXCEPT !.date_uuid = StrCell(PaddedUuid)],
     [EventRow EXCEPT !.date_uuid = StrCell(NonHexUuid)]}

Entities == {"user", "card", "store", "product", "order", "event"}

SampleRows(e) ==
    CASE e = "user" -> UserRows
      [] e = "card" -> CardRows
      [] e = "store" -> StoreRows
      [] e = "product" -> ProductRows
      [] e = "order" -> OrderRows
      [] e = "event" -> EventRows

\* the sample rows that come in numbers around the support threshold; the
\* other sample rows, each with one defect, come alone
CommonRows(e) ==
    CASE e = "user" -> {UserRow}
      [] e = "card" -> {CardRow, [CardRow EXCEPT !.card_provider = StrCell(AmexText)]}
      [] e = "store" -> {StoreRow, [StoreRow EXCEPT !.store_type = StrCell(KioskText)]}
      [] e = "product" -> {ProductRow, [ProductRow EXCEPT !.category = StrCell(JunkText)]}
      [] e = "order" -> {OrderRow}
      [] e = "event" -> {EventRow, [EventRow EXCEPT !.time_period = StrCell(MorningText)]}

\* how many times a sample row is repeated
Repeats(e, r) ==
    IF r \notin CommonRows(e) THEN {1}
    ELSE CASE e = "card" -> {1, MinCardProviderCount, MinCardProviderCount + 1}
           [] e = "store" -> {1, 2, MinStoreTypeCount}
           [] e = "event" -> {1, MinTimePeriodCount, MinTimePeriodCount + 1}
           [] OTHER -> {1, MinCategoryCount + 1}

SampleGroups(e) ==
    UNION {{[r |-> r, n |-> n] : n \in Repeats(e, r)} : r \in SampleRows(e)}

\* the columns of the extract that hold the index of an earlier frame
IndexColumns(e) ==
    CASE e = "user" -> {"index"}
      [] e = "store" -> {"index"}
      [] e = "product" -> {"Unnamed: 0"}
      [] e = "order" -> {"level_0", "index"}
      [] OTHER -> {}

RawFrame(e, groups) ==
    DataFrame(
        (DOMAIN (CHOOSE r \in SampleRows(e) : TRUE)) \cup IndexColumns(e),
        [k \in 1..Len(groups) |->
            [i |-> IntCell(RowsBefore(groups, k)),
             n |-> groups[k].n,
             r |-> groups[k].r
                   @@ [c \in IndexColumns(e) |-> IntCell(RowsBefore(groups, k))]]])

RawFrames(e) ==
    {RawFrame(e, groups) :
        groups \in UNION {[1..k -> SampleGroups(e)] : k \in 0..MaxGroups}}

-----------------------------------------------------------------------------
(* Runs of the entity cleaners: the cleaner of the entity is applied to    *)
(* the extract, and then to its own output, up to MaxRuns times.           *)

Init ==
    /\ entity \in Entities
    /\ raw_df \in RawFrames(entity)
    /\ runs = <<>>
    /\ date_string = NotRun
    /\ date = NotRun
    /\ entry = NotRun
    /\ weight = NotRun
    /\ script = "none"
    /\ pc = 0
    /\ table_df = NotRun
    /\ history = <<>>

\* the frame the next application is given
Input == IF runs = <<>> THEN raw_df ELSE runs[Len(runs)]

CanRun(e) ==
    /\ entity = e
    /\ Len(runs) < MaxRuns
    /\ Input.t = "df"

Returns(o) ==
    /\ runs' = Append(runs, o)
    /\ UNCHANGED <<date_string, date, entry, weight, entity, raw_df,
                   script, pc, table_df, history>>

CleanUser == CanRun("user") /\ Returns(clean_user_data(Input))

CleanCard == CanRun("card") /\ Returns(clean_card_data(Input))

CleanStore == CanRun("store") /\ Returns(clean_store_data(Input))

CleanProducts == CanRun("product") /\ Returns(clean_products_data(Input))

CleanOrders == CanRun("order") /\ Returns(clean_orders_data(Input))

CleanEvents == CanRun("event") /\ Returns(clean_events_data(Input))

Next ==
    \/ CleanUser
    \/ CleanCard
    \/ CleanStore
    \/ CleanProducts
    \/ CleanOrders
    \/ CleanEvents

Spec == Init /\ [][Next]_vars


-----------------------------------------------------------------------------
(* Properties of the entity cleaners *)

\* the k-th application returned a table
Returned(k) == k <= Len(runs) /\ runs[k].t = "df"

\* the frame the k-th application was given
InputOf(k) == IF k = 1 THEN raw_df ELSE runs[k - 1]

Groups(df) == {df.rows[j] : j \in 1..Len(df.rows)}

RECURSIVE RowCount(_)
RowCount(rows) == IF rows = <<>> THEN 0 ELSE rows[1].n + RowCount(Tail(rows))

HasMissing(r) == \E c \in DOMAIN r : IsMissing(r[c])

C5_Idempotent ==
    \A k \in 2..Len(runs) : runs[k] = runs[k - 1]

\* C6: no cleaner raises to its caller: for every extracted table that has
\* the entity's columns the cleaner returns a table.
C6_NoCleanerRaises ==
    Len(runs) >= 1 => runs[1].t = "df"

\* the index label of a row of the frame a cleaner is given: clean_user_data
\* moves an index column into the index
LabelIn(df, g) ==
    IF entity = "user" /\ "index" \in df.cols THEN g.r["index"] ELSE g.i

GGB == StrCell(<<"G", "G", "B">>)

GB == StrCell(<<"G", "B">>)

\* a user row that no other rule drops: no missing cell, parseable dates
UserRowIsSound(r) ==
    /\ ~HasMissing(r)
    /\ parse(PyStr(r.date_of_birth)).t = "date"
    /\ parse(PyStr(r.join_date)).t = "date"

\* C7: in every row retained by clean_user_data a raw country_code "GGB"
\* has become "GB" and any other country_code is as extracted, and a row
\* is not dropped for its country_code being "GGB".
C7_CountryCodeFix ==
    \A k \in 1..Len(runs) :
        (entity = "user" /\ Returned(k)) =>
            /\ \A g \in Groups(runs[k]) :
                  \E h \in Groups(InputOf(k)) :
                      /\ LabelIn(InputOf(k), h) = g.i
                      /\ g.n = h.n
                      /\ g.r.country_code =
                            IF h.r.country_code = GGB THEN GB
                            ELSE h.r.country_code
            /\ \A h \in Groups(InputOf(k)) :
                  (h.r.country_code = GGB /\ UserRowIsSound(h.r)) =>
                      \E g \in Groups(runs[k]) : g.i = LabelIn(InputOf(k), h)

C7_Witness ==
    /\ entity = "user" /\ Returned(1)
    /\ \E g \in Groups(runs[1]) :
          \E h \in Groups(raw_df) :
              /\ LabelIn(raw_df, h) = g.i
              /\ h.r.country_code = GGB
              /\ g.r.country_code = GB

Visa == StrCell(<<"V", "i", "s", "a">>)

\* C8 as stated: clean_card_data retains a row only if its card_number is
\* all digits and of a length accepted for its card_provider (16 digits for
\* the provider Visa, the specification's example).
C8_CardNumberLengthAccepted ==
    (entity = "card" /\ Returned(1)) =>
        \A g \in Groups(runs[1]) :
            /\ AllDigits(g.r.card_number.v)
            /\ g.r.card_provider = Visa
                  => Len(g.r.card_number.v) = 16

\* C8 as amended: clean_card_data retains a row only if its card_number,
\* after every "?" is removed, is one or more digits and nothing else; the
\* retained card_number is that text, whatever its length.
C8_CardNumberAllDigits ==
    \A k \in 1..Len(runs) :
        (entity = "card" /\ Returned(k)) =>
            \A g \in Groups(runs[k]) :
                \E h \in Groups(InputOf(k)) :
                    /\ h.i = g.i
                    /\ g.r.card_number =
                          StrCell(Replace(PyStr(h.r.card_number), <<"?">>, <<>>))
                    /\ g.r.card_number.v # <<>>
                    /\ AllDigits(g.r.card_number.v)

\* a Visa row of 15 digits, once its "?" are removed, is retained
C8_Witness ==
    /\ entity = "card" /\ Returned(1)
    /\ \E g \in Groups(runs[1]) :
          \E h \in Groups(raw_df) :
              /\ h.i = g.i
              /\ h.r.card_number.t = "str"
              /\ Contains(h.r.card_number.v, <<"?">>)
              /\ g.r.card_provider = Visa
              /\ Len(g.r.card_number.v) = 15

\* the rows of a frame whose store_type is x
StoreTypeRows(df, x) == ValueCount(df, "store_type", x)

\* a store row that raises nothing by itself: a store_type, a digit in
\* staff_numbers, a textual continent
StoreRowIsSound(r) ==
    /\ ~IsMissing(r.store_type)
    /\ KeepDigits(PyStr(r.staff_numbers)) # <<>>
    /\ r.continent.t = "str"

\* C9: clean_store_data retains every row whose store_type is "Web Portal",
\* also when its other fields are missing, drops every row whose store_type
\* is another value occurring fewer than 4 times, and drops no row whose
\* store_type occurs at least 4 times.  Stated of the tables whose rows
\* other than the Web Portal rows are sound.
C9_WebPortalRetained ==
    (/\ entity = "store" /\ Len(runs) >= 1
     /\ \A h \in Groups(raw_df) : h.r.store_type = WebPortal \/ StoreRowIsSound(h.r))
    => /\ runs[1].t = "df"
       /\ \A h \in Groups(raw_df) :
             StoreTypeRows(runs[1], h.r.store_type) =
                IF \/ h.r.store_type = WebPortal
                   \/ StoreTypeRows(raw_df, h.r.store_type) >= 4
                THEN StoreTypeRows(raw_df, h.r.store_type)
                ELSE 0

Hex == Digit \cup {"a", "b", "c", "d", "e", "f", "A", "B", "C", "D", "E", "F"}

\* five groups of 8, 4, 4, 4 and 12 hexadecimal digits, "-" between them,
\* and nothing before or after
IsCanonicalUuid(s) ==
    /\ Len(s) = 36
    /\ \A i \in 1..36 :
          IF i \in {9, 14, 19, 24} THEN s[i] = "-" ELSE s[i] \in Hex

\* C10: the product cleaner (uuid) and the event cleaner (date_uuid) retain
\* a row only if the field is exactly a canonical UUID.
C10_OnlyCanonicalUuidRetained ==
    \A k \in 1..Len(runs) :
        Returned(k) =>
            /\ entity = "event"
                  => \A g \in Groups(runs[k]) :
                        IsCanonicalUuid(PyStr(g.r.date_uuid))
            /\ entity = "product"
                  => \A g \in Groups(runs[k]) : IsCanonicalUuid(PyStr(g.r.uuid))

Removed == StrCell(<<"R", "e", "m", "o", "v", "e", "d">>)

StillAvaliable ==
    StrCell(<<"S", "t", "i", "l", "l", "_", "a", "v", "a", "l", "i", "a", "b", "l", "e">>)

\* a product table whose weights single_conversion converts without raising
WeightsConvert(df) ==
    \A h \in Groups(df) : single_conversion(h.r.weight).t # "raise"

\* C11: clean_products_data returns a table without a column removed, whose
\* column still_available is FALSE in every retained row that was "Removed"
\* and TRUE in every retained row that was "Still_avaliable"; a row with
\* another removed value is dropped.  Stated of the tables whose weights
\* convert.
C11_StillAvailableMapping ==
    (entity = "product" /\ Len(runs) >= 1 /\ WeightsConvert(raw_df)) =>
        /\ runs[1].t = "df"
        /\ "removed" \notin runs[1].cols
        /\ "still_available" \in runs[1].cols
        /\ \A g \in Groups(runs[1]) :
              \E h \in Groups(raw_df) :
                  /\ h.i = g.i
                  /\ h.r.removed \in {Removed, StillAvaliable}
                  /\ g.r.still_available = BoolCell(h.r.removed = StillAvaliable)

\* C12 as stated: in the table returned by clean_card_data every
\* card_provider occurs more than 12 times in that table, in the table
\* returned by clean_events_data every time_period more than 15 times, and in
\* the table returned by clean_products_data every category more than once.
C12_MinSupportInOutput ==
    \A k \in 1..Len(runs) :
        Returned(k) =>
            \A g \in Groups(runs[k]) :
                /\ entity = "card" =>
                      ValueCount(runs[k], "card_provider", g.r.card_provider)
                          > MinCardProviderCount
                /\ entity = "event" =>
                      ValueCount(runs[k], "time_period", g.r.time_period)
                          > MinTimePeriodCount
                /\ entity = "product" =>
                      ValueCount(runs[k], "category", g.r.category)
                          > MinCategoryCount

\* C12 as amended: every row of the table returned by clean_card_data has a
\* card_provider that occurs more than 12 times in the table the cleaner
\* was given, and every row of the table returned by clean_events_data a
\* time_period that occurs more than 15 times in the table it was given.
C12_MinSupportInInput ==
    \A k \in 1..Len(runs) :
        Returned(k) =>
            \A g \in Groups(runs[k]) :
                /\ entity = "card" =>
                      \E h \in Groups(InputOf(k)) :
                          /\ h.i = g.i
                          /\ AsString(h.r.card_provider) = g.r.card_provider
                          /\ ValueCount(InputOf(k), "card_provider",
                                        h.r.card_provider) > MinCardProviderCount
                /\ entity = "event" =>
                      \E h \in Groups(InputOf(k)) :
                          /\ AsString(h.r.time_period) = g.r.time_period
                          /\ ValueCount(InputOf(k), "time_period",
                                        h.r.time_period) > MinTimePeriodCount

\* a card table was returned in which a provider that passed the threshold
\* on the input is left with no more rows than the threshold
C12_Witness ==
    /\ entity = "card" /\ Returned(1)
    /\ \E g \in Groups(runs[1]) :
          /\ ValueCount(raw_df, "card_provider", g.r.card_provider)
                > MinCardProviderCount
          /\ ValueCount(runs[1], "card_provider", g.r.card_provider)
                <= MinCardProviderCount

\* the number of "@" in a text
AtCount(s) == Cardinality({i \in 1..Len(s) : s[i] = "@"})

\* the "@" of a text stand in one consecutive run
SingleAtRun(s) ==
    /\ AtCount(s) >= 1
    /\ \A i, j \in 1..Len(s) :
          (s[i] = "@" /\ s[j] = "@" /\ i <= j) =>
              \A m \in i..j : s[m] = "@"

\* the text with every "@" taken out
WithoutAt(s) == SelectSeq(s, LAMBDA c : c # "@")

\* C13 as stated: in every row retained by clean_user_data whose raw
\* email_address has its "@" in one consecutive run, the cleaned
\* email_address contains exactly one "@", and a raw address with a single
\* "@" is returned unchanged.
C13_ExactlyOneAt ==
    (entity = "user" /\ Returned(1)) =>
        \A g \in Groups(runs[1]) :
            \A h \in Groups(raw_df) :
                (LabelIn(raw_df, h) = g.i /\ SingleAtRun(h.r.email_address.v)) =>
                    /\ AtCount(g.r.email_address.v) = 1
                    /\ AtCount(h.r.email_address.v) = 1
                          => g.r.email_address = h.r.email_address

\* C13 as amended: in every row retained by clean_user_data whose raw
\* email_address has its "@" in one consecutive run of n, the cleaned
\* email_address has them in one run of n / 2 rounded up, the rest of the
\* text as extracted: exactly one "@" for n = 1 (unchanged) and n = 2.
C13_AtRunHalved ==
    \A k \in 1..Len(runs) :
        (entity = "user" /\ Returned(k)) =>
            \A g \in Groups(runs[k]) :
                \A h \in Groups(InputOf(k)) :
                    (/\ LabelIn(InputOf(k), h) = g.i
                     /\ SingleAtRun(h.r.email_address.v)) =>
                        /\ SingleAtRun(g.r.email_address.v)
                        /\ AtCount(g.r.email_address.v) =
                              (AtCount(h.r.email_address.v) + 1) \div 2
                        /\ WithoutAt(g.r.email_address.v) =
                              WithoutAt(h.r.email_address.v)
                        /\ AtCount(h.r.email_address.v) = 1
                              => g.r.email_address = h.r.email_address

\* a row was retained whose raw address had "@@" and whose cleaned address
\* has one "@"
C13_Witness ==
    /\ entity = "user" /\ Returned(1)
    /\ \E g \in Groups(runs[1]) :
          \E h \in Groups(raw_df) :
              /\ LabelIn(raw_df, h) = g.i
              /\ AtCount(h.r.email_address.v) = 2
              /\ AtCount(g.r.email_address.v) = 1

\* HH:MM:SS and nothing else
IsClockText(s) ==
    /\ Len(s) = 8
    /\ \A i \in 1..8 : IF i \in {3, 6} THEN s[i] = ":" ELSE s[i] \in Digit

\* C14: in every row returned by clean_events_data the timestamp is of the
\* form HH:MM:SS, day is an integer in 1..31, month an integer in 1..12,
\* year a number of 4 digits, and date is the timestamp made of the year,
\* month, day and timestamp of the row.
C14_EventFieldInvariant ==
    \A k \in 1..Len(runs) :
        (entity = "event" /\ Returned(k)) =>
            \A g \in Groups(runs[k]) :
                /\ g.r.timestamp.t = "str" /\ IsClockText(g.r.timestamp.v)
                /\ g.r.day.t = "int" /\ g.r.day.n \in 1..31
                /\ g.r.month.t = "int" /\ g.r.month.n \in 1..12
                /\ g.r.year.t = "int" /\ g.r.year.n \in 1000..9999
                /\ g.r.date =
                      DateCell(g.r.year.n, g.r.month.n, g.r.day.n,
                               ToNat(SubSeq(g.r.timestamp.v, 1, 2)),
                               ToNat(SubSeq(g.r.timestamp.v, 4, 5)),
                               ToNat(SubSeq(g.r.timestamp.v, 7, 8)))

-----------------------------------------------------------------------------
(* The scripts.  src/__main__.py runs python_scripts and then              *)
(* create_db_schema; each of the two can also be run by itself.  A         *)
(* statement that raises ends the run: nothing catches the exception.      *)

Scripts == {"src", "python_scripts", "create_db_schema"}

PipelineEntities == <<"user", "card", "store", "product", "order", "event">>

\* the table an entity is uploaded to
TableName(e) ==
    CASE e = "user" -> "dim_users"
      [] e = "card" -> "dim_card_details"
      [] e = "store" -> "dim_store_details"
      [] e = "product" -> "dim_products"
      [] e = "order" -> "orders_table"
      [] e = "event" -> "dim_date_times"

list_of_sql_scripts ==
    <<"cast_orders_table.sql", "cast_dim_users.sql",
      "cast_dim_store_details.sql", "add_weight_class_dim_products.sql",
      "cast_dim_products.sql", "cast_dim_date_times.sql",
      "cast_dim_card_details.sql", "add_primary_keys.sql",
      "add_foreign_keys.sql">>

\* the statements of python_scripts: extract, clean, upload per entity
PythonStatements ==
    [i \in 1..(3 * Len(PipelineEntities)) |->
        [kind |-> <<"extract", "clean", "upload">>[((i - 1) % 3) + 1],
         name |-> PipelineEntities[((i - 1) \div 3) + 1]]]

\* the iterations of the loop of create_db_schema
SqlStatements ==
    [i \in 1..Len(list_of_sql_scripts) |->
        [kind |-> "sql", name |-> list_of_sql_scripts[i]]]

Program(sc) ==
    CASE sc = "src" -> PythonStatements \o SqlStatements
      [] sc = "python_scripts" -> PythonStatements
      [] sc = "create_db_schema" -> SqlStatements
      [] OTHER -> <<>>

\* the frames an extraction can return: one group of rows of the entity
PipelineGroups(e) ==
    CASE e = "user" ->
            {[r |-> UserRow, n |-> 1],
             [r |-> [UserRow EXCEPT !.country_code = StrCell(<<"G", "G", "B">>)], n |-> 1],
             [r |-> [UserRow EXCEPT !.join_date = StrCell(LongDigits)], n |-> 1]}
      [] e = "card" ->
            {[r |-> CardRow, n |-> MinCardProviderCount + 1],
             [r |-> CardRow, n |-> 1],
             [r |-> [CardRow EXCEPT !.expiry_date = NaN], n |-> 1]}
      [] e = "store" ->
            {[r |-> StoreRow, n |-> MinStoreTypeCount],
             [r |-> [StoreRow EXCEPT !.staff_numbers = StrCell(<<"a", "b", "c">>)], n |-> 1]}
      [] e = "product" ->
            {[r |-> ProductRow, n |-> MinCategoryCount + 1],
             [r |-> [ProductRow EXCEPT !.weight = StrCell(<<"a", "b", "c", "k", "g">>)], n |-> 1]}
      [] e = "order" -> {[r |-> OrderRow, n |-> 1]}
      [] e = "event" -> {[r |-> EventRow, n |-> MinTimePeriodCount + 1]}

PipelineExtracts(e) == {RawFrame(e, <<g>>) : g \in PipelineGroups(e)}

\* the cleaner skipped: a mutant of Cleaner
CleanerSkipped(e, df) == df

\* d_cleaner.clean_x_data(x_df)
Cleaner(e, df) ==
    CASE e = "user" -> clean_user_data(df)
      [] e = "card" -> clean_card_data(df)
      [] e = "store" -> clean_store_data(df)
      [] e = "product" -> clean_products_data(df)
      [] e = "order" -> clean_orders_data(df)
      [] e = "event" -> clean_events_data(df)

InitPipeline ==
    /\ script \in Scripts
    /\ pc = 1
    /\ table_df = NotRun
    /\ history = <<>>
    /\ date_string = NotRun
    /\ date = NotRun
    /\ entry = NotRun
    /\ weight = NotRun
    /\ entity = "none"
    /\ raw_df = <<>>
    /\ runs = <<>>

\* an exception ended the run
Halted == history # <<>> /\ history[Len(history)].kind = "raise"

\* the statement at pc is of the kind k
At(k) ==
    /\ ~Halted
    /\ pc <= Len(Program(script))
    /\ Program(script)[pc].kind = k

\* the statement at pc completes with the value o, or raises o
Completes(o) ==
    /\ history' = Append(history,
          IF o.t = "raise"
          THEN [kind |-> "raise", name |-> Program(script)[pc].name, df |-> o]
          ELSE [kind |-> Program(script)[pc].kind,
                name |-> Program(script)[pc].name, df |-> o])
    /\ pc' = IF o.t = "raise" THEN pc ELSE pc + 1
    /\ UNCHANGED <<script, date_string, date, entry, weight, entity, raw_df, runs>>

\* x_df = dex.read_rds_table(...), retrieve_pdf_data(), ...: a frame, or
\* the exception of a failed connection
Extract ==
    /\ At("extract")
    /\ \E o \in PipelineExtracts(Program(script)[pc].name)
                \cup {Raise("ConnectionError")} :
          /\ Completes(o)
          /\ table_df' = IF o.t = "raise" THEN table_df ELSE o

\* x_df = d_cleaner.clean_x_data(x_df)
Clean ==
    /\ At("clean")
    /\ \E o \in {Cleaner(Program(script)[pc].name, table_df)} :
          /\ Completes(o)
          /\ table_df' = IF o.t = "raise" THEN table_df ELSE o

\* db_connector.upload_to_db(x_df, table): the frame is written, or the
\* database refuses
Upload ==
    /\ At("upload")
    /\ \E o \in {table_df, Raise("OperationalError")} : Completes(o)
    /\ UNCHANGED table_df

\* connection.execute(query) of one script of the list, or the exception
\* of a script that is not found or that the database refuses
RunSqlScript ==
    /\ At("sql")
    /\ \E o \in {NotRun, Raise("TypeError"), Raise("ProgrammingError")} :
          Completes(o)
    /\ UNCHANGED table_df

NextPipeline ==
    \/ Extract
    \/ Clean
    \/ Upload
    \/ RunSqlScript

SpecPipeline == InitPipeline /\ [][NextPipeline]_vars

\* the statements that completed, in the order they did
Completed == SelectSeq(history, LAMBDA h : h.kind # "raise")

\* the position in the history of the statement of kind k and name n, or 0
PositionOf(k, n) ==
    IF \E i \in 1..Len(history) : history[i].kind = k /\ history[i].name = n
    THEN CHOOSE i \in 1..Len(history) : history[i].kind = k /\ history[i].name = n
    ELSE 0

\* what the cleaner of an entity returns for a frame
CleanedFrame(e, df) ==
    CASE e = "user" -> clean_user_data(df)
      [] e = "card" -> clean_card_data(df)
      [] e = "store" -> clean_store_data(df)
      [] e = "product" -> clean_products_data(df)
      [] e = "order" -> clean_orders_data(df)
      [] e = "event" -> clean_events_data(df)

====
